---- MODULE Spec2Model ----
(***************************************************************************)
(* Chunked-extraction reconciliation pipeline of the contract metadata     *)
(* extractor: the merge engine (utils/merge_utils.py), the token segmenter *)
(* (utils/token_utils.py), the JSON repair (utils/json_fix.py), the        *)
(* per-document orchestrator (extractors/metadata_extractor.py) and the    *)
(* bounded-concurrency batch driver (utils/async_utils.py, main.py).       *)
(*                                                                         *)
(* A text is a sequence of symbols.  A symbol is one character ("{", ",",  *)
(* " ", ...) or an unbroken run of word characters ("contract_type",       *)
(* "Acme", "1"), which the regular expressions and the JSON grammar of the *)
(* code treat as a unit.                                                   *)
(***************************************************************************)
EXTENDS Integers, Sequences, FiniteSets, TLC

VARIABLES
    pc,          \* position of the operation, pipeline or batch under study
    objs,        \* merge_json_objects: the argument, a sequence of mappings
    result,      \* merge_json_objects: what the call produced
    text,        \* split_by_tokens: the text
    max_tokens,  \* split_by_tokens: the chunk budget
    chunks,      \* split_by_tokens: the chunks returned
    blob,        \* fix_and_load: the argument
    data,        \* fix_and_load: the value returned (None is JNull)
    doc,         \* extract_metadata: the text of the document
    todo,        \* extract_metadata: the chunks not yet sent to the oracle
    raws,        \* extract_metadata: the texts the oracle returned, in order
    extractions, \* extract_metadata: the typed record of every chunk done
    outcome,     \* extract_metadata: the record returned or exception raised
    save,        \* extract_metadata: the save flag
    sink,        \* extract_metadata: the JSON document written, if any
    task,        \* batch: the state of every document's wrapped pipeline
    left,        \* batch: oracle calls a pipeline still has to make
    cause,       \* batch: why a pipeline raised
    sem_value,   \* batch: the semaphore's counter
    waiters      \* batch: the semaphore's queue of blocked acquirers

mergeVars == <<objs, result>>

splitVars == <<text, max_tokens, chunks>>

fixVars == <<blob, data>>

extractVars == <<doc, todo, raws, extractions, outcome, save, sink>>

batchVars == <<task, left, cause, sem_value, waiters>>

vars ==
    <<pc, objs, result, text, max_tokens, chunks, blob, data, doc, todo, raws,
      extractions, outcome, save, sink, task, left, cause, sem_value, waiters>>

(***************************************************************************)
(* JSON values as Python holds them after json.loads: a tag and a payload. *)
(* A mapping is a function from key texts to values, a list is a sequence. *)
(***************************************************************************)
JNull == [t |-> "null", v |-> <<>>]
JBool(b) == [t |-> "bool", v |-> b]
JInt(n) == [t |-> "int", v |-> n]
JStr(s) == [t |-> "str", v |-> s]
JList(l) == [t |-> "list", v |-> l]
JDict(d) == [t |-> "dict", v |-> d]

EmptyMap == <<>>

K(s) == <<s>>

IsList(x) == x.t = "list"

IsDict(x) == x.t = "dict"

(* Outcome of a call: a returned value, or the exception it raised. *)
Returned(x) == [ok |-> TRUE, val |-> x, exc |-> "none"]

Raised(e) == [ok |-> FALSE, val |-> JNull, exc |-> e]

NotCalled == [ok |-> FALSE, val |-> JNull, exc |-> "not called"]

(***************************************************************************)
(* str.strip() and str.lower()                                             *)
(***************************************************************************)
IsSpace(c) == c \in {" ", "\n"}

LowerSym(c) ==
    CASE c = "Acme" -> "acme"
      [] c = "ACME" -> "acme"
      [] c = "Beta" -> "beta"
      [] c = "NDA" -> "nda"
      [] c = "Lease" -> "lease"
      [] OTHER -> c

lower(s) == [i \in 1..Len(s) |-> LowerSym(s[i])]

RECURSIVE lstrip(_)
lstrip(s) == IF s # <<>> /\ IsSpace(Head(s)) THEN lstrip(Tail(s)) ELSE s

RECURSIVE rstrip(_)
rstrip(s) ==
    IF s # <<>> /\ IsSpace(s[Len(s)]) THEN rstrip(SubSeq(s, 1, Len(s) - 1)) ELSE s

strip(s) == rstrip(lstrip(s))

(***************************************************************************)
(* utils/merge_utils.py                                                    *)
(***************************************************************************)

(* Python's ==, as `v in (None, [], {}, "", 0)` applies it: bool is a      *)
(* subclass of int, so False == 0 and True == 1; other values are equal    *)
(* when they have the same type and contents.                              *)
IsNum(x) == x.t \in {"bool", "int"}

NumOf(x) == IF x.t = "bool" THEN (IF x.v THEN 1 ELSE 0) ELSE x.v

PyEq(x, y) ==
    IF IsNum(x) /\ IsNum(y) THEN NumOf(x) = NumOf(y)
    ELSE x.t = y.t /\ x.v = y.v

EMPTIES == <<JNull, JList(<<>>), JDict(EmptyMap), JStr(<<>>), JInt(0)>>

(* An emptiness test that knows only None. *)
IsEmptyOnlyNull(x) == x.t = "null"

(* v in (None, [], {}, "", 0) *)

IsEmpty(x) == \E i \in 1..Len(EMPTIES) : PyEq(x, EMPTIES[i])

(* bool(x) *)
Truthy(x) ==
    CASE x.t = "null" -> FALSE
      [] x.t = "bool" -> x.v
      [] x.t = "int" -> x.v # 0
      [] x.t = "str" -> x.v # <<>>
      [] x.t = "list" -> x.v # <<>>
      [] x.t = "dict" -> DOMAIN x.v # {}

(* _dedup_list: json.dumps(item, sort_keys=True) is a canonical text of    *)
(* the item, so two items share a key exactly when they are the same       *)
(* tagged value (true and 1 serialise differently).                        *)
RECURSIVE dedup_list_from(_, _)
dedup_list_from(lst, out) ==
    IF lst = <<>> THEN out
    ELSE IF \E i \in 1..Len(out) : out[i] = Head(lst)
         THEN dedup_list_from(Tail(lst), out)
         ELSE dedup_list_from(Tail(lst), Append(out, Head(lst)))

dedup_list(lst) == dedup_list_from(lst, <<>>)

(* x.get("name", "").strip().lower(): AttributeError when x has no .get    *)
(* (it is not a mapping) or the name is not a string.                      *)
(* The same key without the lower-casing. *)
NameKeyNoLower(x) ==
    IF ~IsDict(x) THEN [ok |-> FALSE, key |-> <<>>]
    ELSE LET n == IF K("name") \in DOMAIN x.v THEN x.v[K("name")] ELSE JStr(<<>>)
         IN  IF n.t # "str" THEN [ok |-> FALSE, key |-> <<>>]
             ELSE [ok |-> TRUE, key |-> strip(n.v)]

(* x.get("name", "").strip().lower() *)
NameKey(x) ==
    IF ~IsDict(x) THEN [ok |-> FALSE, key |-> <<>>]
    ELSE LET n == IF K("name") \in DOMAIN x.v THEN x.v[K("name")] ELSE JStr(<<>>)
         IN  IF n.t # "str" THEN [ok |-> FALSE, key |-> <<>>]
             ELSE [ok |-> TRUE, key |-> lower(strip(n.v))]

RECURSIVE dedup_parties_from(_, _, _)
dedup_parties_from(parties, seen, out) ==
    IF parties = <<>> THEN Returned(JList(out))
    ELSE LET k == NameKey(Head(parties))
         IN  IF ~k.ok THEN Raised("AttributeError")
             ELSE IF k.key # <<>> /\ k.key \notin seen
                  THEN dedup_parties_from(Tail(parties), seen \cup {k.key},
                                          Append(out, Head(parties)))
                  ELSE dedup_parties_from(Tail(parties), seen, out)

dedup_parties(parties) == dedup_parties_from(parties, {}, <<>>)

ClauseKey(x) ==
    LET n == NameKey(x)
    IN  IF ~n.ok THEN [ok |-> FALSE, key |-> <<>>]
        ELSE [ok |-> TRUE,
              key |-> <<n.key,
                        IF K("present") \in DOMAIN x.v
                        THEN Truthy(x.v[K("present")]) ELSE FALSE>>]

RECURSIVE dedup_clauses_from(_, _, _)
dedup_clauses_from(clauses, seen, out) ==
    IF clauses = <<>> THEN Returned(JList(out))
    ELSE LET k == ClauseKey(Head(clauses))
         IN  IF ~k.ok THEN Raised("AttributeError")
             ELSE IF k.key \notin seen
                  THEN dedup_clauses_from(Tail(clauses), seen \cup {k.key},
                                          Append(out, Head(clauses)))
                  ELSE dedup_clauses_from(Tail(clauses), seen, out)

dedup_clauses(clauses) == dedup_clauses_from(clauses, {}, <<>>)

postprocess_contract(contract) ==
    LET p == IF K("parties") \in DOMAIN contract /\ IsList(contract[K("parties")])
             THEN dedup_parties(contract[K("parties")].v) ELSE Returned(JNull)
    IN  IF ~p.ok THEN p
        ELSE LET d1 == [k \in DOMAIN contract |->
                          IF k = K("parties") /\ IsList(contract[k]) THEN p.val
                          ELSE contract[k]]
                 c == IF K("clauses") \in DOMAIN d1 /\ IsList(d1[K("clauses")])
                      THEN dedup_clauses(d1[K("clauses")].v) ELSE Returned(JNull)
             IN  IF ~c.ok THEN c
                 ELSE Returned(JDict([k \in DOMAIN d1 |->
                          IF k = K("clauses") /\ IsList(d1[k]) THEN c.val
                          ELSE d1[k]]))

(* merged.update({kk: vv for kk, vv in v.items() if vv not in (...)}).     *)
(* The update is made in place on a mapping that may belong to an input    *)
(* record; the value of the accumulator is what is modelled here.          *)
DictUpdate(old, new) ==
    LET take == {kk \in DOMAIN new : ~IsEmpty(new[kk])}
    IN  [kk \in DOMAIN old \cup take |-> IF kk \in take THEN new[kk] ELSE old[kk]]

(* A fold in which the incoming value replaces the existing one. *)
MergeValueLastWins(old, new) == new

(* The else branch of the fold, lines 85-90: both values are non-empty. *)

MergeValue(old, new) ==
    IF IsList(new) /\ IsList(old) THEN JList(dedup_list(old.v \o new.v))
    ELSE IF IsDict(new) /\ IsDict(old) THEN JDict(DictUpdate(old.v, new.v))
    ELSE old

(* The body of `for k, v in obj.items()`, for every key of one record.     *)
(* The keys of a record are distinct and each touches only its own entry   *)
(* of the accumulator, so the order of the keys does not matter.           *)
MergeInto(acc, obj) ==
    LET take == {k \in DOMAIN obj : ~IsEmpty(obj[k])}
    IN  [k \in DOMAIN acc \cup take |->
            IF k \notin take THEN acc[k]
            ELSE IF k \notin DOMAIN acc \/ IsEmpty(acc[k]) THEN obj[k]
            ELSE MergeValue(acc[k], obj[k])]

RECURSIVE Fold(_, _)
Fold(acc, records) ==
    IF records = <<>> THEN acc
    ELSE Fold(MergeInto(acc, Head(records)), Tail(records))

merge_json_objects(records) ==
    IF records = <<>> THEN Returned(JDict(EmptyMap))
    ELSE postprocess_contract(Fold(EmptyMap, records))

(***************************************************************************)
(* utils/token_utils.py, with the _Approx encoder of _get_encoder (the     *)
(* tokenizer library is absent): it has encode and no decode.              *)
(***************************************************************************)
CharsPerToken == 4

Min(a, b) == IF a < b THEN a ELSE b

CeilDiv(a, b) == (a + b - 1) \div b

(* _Approx.encode *)
ApproxEncode(s) == [i \in 1..CeilDiv(Len(s), CharsPerToken) |-> 0]

token_len(s) == Len(ApproxEncode(s))

(* A slice that stops one character early. *)
SliceDropLast(s, a, b) == SubSeq(s, a + 1, Min(b - 1, Len(s)))

(* s[a:b] of Python, a and b counted from 0 *)
Slice(s, a, b) == SubSeq(s, a + 1, Min(b, Len(s)))

(* [s[i:i+step] for i in range(0, len(s), step)] *)
Windows(s, step) ==
    [j \in 1..CeilDiv(Len(s), step) |-> Slice(s, (j - 1) * step, j * step)]

(* enc.encode succeeds, hasattr(enc, "decode") is false, AttributeError is *)
(* raised and caught: character windows of max_tokens * 4.                 *)
split_by_tokens(s, budget) == Windows(s, budget * CharsPerToken)

(***************************************************************************)
(* json.loads                                                              *)
(***************************************************************************)
QUOTE == "\""

BACKSLASH == "\\"

(* The markdown fence marker, three backticks. *)
FENCE == "<fence>"

Punctuation == {"{", "}", "[", "]", ",", ":", QUOTE, BACKSLASH, FENCE, " ", "\n"}

(* [a-zA-Z0-9_] *)
IsWord(c) == c \notin Punctuation /\ c # "EOF"

Digits == {"0", "1", "2"}

DigitVal(c) == CASE c = "0" -> 0 [] c = "1" -> 1 [] c = "2" -> 2

At(s, i) == IF i \in 1..Len(s) THEN s[i] ELSE "EOF"

RECURSIVE skipws(_, _)
skipws(s, i) == IF IsSpace(At(s, i)) THEN skipws(s, i + 1) ELSE i

(* The end of the run of word characters that starts at i (exclusive). *)
RECURSIVE wordend(_, _)
wordend(s, i) == IF IsWord(At(s, i)) THEN wordend(s, i + 1) ELSE i

Parsed(x, i) == [ok |-> TRUE, val |-> x, pos |-> i]

ParseFail == [ok |-> FALSE, val |-> JNull, pos |-> 0]

RECURSIVE DecimalOf(_)
DecimalOf(ds) ==
    IF ds = <<>> THEN 0
    ELSE 10 * DecimalOf(SubSeq(ds, 1, Len(ds) - 1)) + DigitVal(ds[Len(ds)])

(* A number or one of the literals true, false, null. *)
ParseWord(s, i) ==
    LET e == wordend(s, i)
        w == SubSeq(s, i, e - 1)
    IN  IF w = <<"true">> THEN Parsed(JBool(TRUE), e)
        ELSE IF w = <<"false">> THEN Parsed(JBool(FALSE), e)
        ELSE IF w = <<"null">> THEN Parsed(JNull, e)
        ELSE IF /\ \A j \in 1..Len(w) : w[j] \in Digits
                /\ (Len(w) = 1 \/ w[1] # "0")
             THEN Parsed(JInt(DecimalOf(w)), e)
        ELSE ParseFail

(* A string from the opening quote at i: the characters up to the closing  *)
(* quote; a raw newline, or an escape other than an escaped quote or      *)
(* backslash, is an error.                                                 *)
RECURSIVE ParseChars(_, _, _)
ParseChars(s, i, acc) ==
    LET c == At(s, i)
    IN  IF c = "EOF" \/ c = "\n" THEN ParseFail
        ELSE IF c = QUOTE THEN Parsed(JStr(acc), i + 1)
        ELSE IF c = BACKSLASH
             THEN IF At(s, i + 1) \in {QUOTE, BACKSLASH}
                  THEN ParseChars(s, i + 2, Append(acc, At(s, i + 1)))
                  ELSE ParseFail
        ELSE ParseChars(s, i + 1, Append(acc, c))

ParseString(s, i) == IF At(s, i) = QUOTE THEN ParseChars(s, i + 1, <<>>) ELSE ParseFail

RECURSIVE ParseValue(_, _)
RECURSIVE ParseMembers(_, _, _)
RECURSIVE ParseElements(_, _, _)

(* Members of an object from the key at i; a repeated key keeps the last. *)
ParseMembers(s, i, acc) ==
    LET k == ParseString(s, i)
    IN  IF ~k.ok THEN ParseFail
        ELSE LET c == skipws(s, k.pos)
             IN  IF At(s, c) # ":" THEN ParseFail
                 ELSE LET x == ParseValue(s, skipws(s, c + 1))
                      IN  IF ~x.ok THEN ParseFail
                          ELSE LET m == skipws(s, x.pos)
                                   nxt == [y \in DOMAIN acc \cup {k.val.v} |->
                                              IF y = k.val.v THEN x.val ELSE acc[y]]
                               IN  IF At(s, m) = "}" THEN Parsed(JDict(nxt), m + 1)
                                   ELSE IF At(s, m) = ","
                                        THEN ParseMembers(s, skipws(s, m + 1), nxt)
                                        ELSE ParseFail

ParseElements(s, i, acc) ==
    LET x == ParseValue(s, i)
    IN  IF ~x.ok THEN ParseFail
        ELSE LET m == skipws(s, x.pos)
             IN  IF At(s, m) = "]" THEN Parsed(JList(Append(acc, x.val)), m + 1)
                 ELSE IF At(s, m) = ","
                      THEN ParseElements(s, skipws(s, m + 1), Append(acc, x.val))
                      ELSE ParseFail

ParseValue(s, i) ==
    LET c == At(s, i)
    IN  IF c = "{"
        THEN LET j == skipws(s, i + 1)
             IN  IF At(s, j) = "}" THEN Parsed(JDict(EmptyMap), j + 1)
                 ELSE ParseMembers(s, j, EmptyMap)
        ELSE IF c = "["
        THEN LET j == skipws(s, i + 1)
             IN  IF At(s, j) = "]" THEN Parsed(JList(<<>>), j + 1)
                 ELSE ParseElements(s, j, <<>>)
        ELSE IF c = QUOTE THEN ParseString(s, i)
        ELSE IF IsWord(c) THEN ParseWord(s, i)
        ELSE ParseFail

(* One value, whitespace around it, and nothing else. *)
json_loads(s) ==
    LET x == ParseValue(s, skipws(s, 1))
    IN  IF x.ok /\ skipws(s, x.pos) = Len(s) + 1 THEN x ELSE ParseFail

(***************************************************************************)
(* utils/json_fix.py                                                       *)
(***************************************************************************)

(* _strip_markdown_fence: every fence marker, with the run of word        *)
(* characters after it, is removed, then the text is stripped.             *)
RECURSIVE DropFences(_, _)
DropFences(s, i) ==
    IF i > Len(s) THEN <<>>
    ELSE IF s[i] = FENCE THEN DropFences(s, wordend(s, i + 1))
    ELSE <<s[i]>> \o DropFences(s, i + 1)

strip_markdown_fence(s) == strip(DropFences(s, 1))

(* _remove_trailing_commas: every comma that, whitespace skipped,          *)
(* is followed by a closing bracket is replaced, with the whitespace and   *)
(* the bracket, by the expansion of the replacement template.              *)
(* The replacement template of line 14 is an escaped backslash followed    *)
(* by the character 1: it expands to those two characters, not to group 1. *)
TrailingCommaTemplate(bracket) == <<BACKSLASH, "1">>

RECURSIVE SubTrailingCommas(_, _)
SubTrailingCommas(s, i) ==
    IF i > Len(s) THEN <<>>
    ELSE LET b == skipws(s, i + 1)
         IN  IF s[i] = "," /\ At(s, b) \in {"}", "]"}
             THEN TrailingCommaTemplate(s[b]) \o SubTrailingCommas(s, b + 1)
             ELSE <<s[i]>> \o SubTrailingCommas(s, i + 1)

remove_trailing_commas(s) == SubTrailingCommas(s, 1)

(* _add_missing_commas: a quote, whitespace, then a quoted run of word     *)
(* characters, whitespace and a colon.  Where the pattern matches from the *)
(* quote at i, the index of its colon; else 0.  A match is replaced by a   *)
(* quote, a comma, a space and the second group.                           *)
MissingCommaMatch(s, i) ==
    LET j == skipws(s, i + 1)
        e == wordend(s, j + 1)
        m == skipws(s, e + 1)
    IN  IF /\ At(s, i) = QUOTE
           /\ At(s, j) = QUOTE
           /\ e > j + 1
           /\ At(s, e) = QUOTE
           /\ At(s, m) = ":"
        THEN m ELSE 0

RECURSIVE AddCommas(_, _)
AddCommas(s, i) ==
    IF i > Len(s) THEN <<>>
    ELSE LET m == MissingCommaMatch(s, i)
         IN  IF m # 0
             THEN <<QUOTE, ",", " ">> \o SubSeq(s, skipws(s, i + 1), m)
                      \o AddCommas(s, m + 1)
             ELSE <<s[i]>> \o AddCommas(s, i + 1)

add_missing_commas(s) == AddCommas(s, 1)

(* for fn in CLEAN_STEPS: cleaned = fn(cleaned) *)
CleanSteps(s) == add_missing_commas(remove_trailing_commas(strip_markdown_fence(s)))

(* None is returned both when the repair fails and when the text is the   *)
(* JSON literal null.                                                      *)
fix_and_load(s) ==
    LET direct == json_loads(s)
    IN  IF direct.ok THEN direct.val
        ELSE LET again == json_loads(CleanSteps(s))
             IN  IF again.ok THEN again.val ELSE JNull

(***************************************************************************)
(* The schemas package: the record shapes.  A typed record is tagged with  *)
(* its class and holds every field of the class.  Construction follows the     *)
(* validation library's defaults: a key that is no field of the class is   *)
(* ignored, a missing field takes its default, a required field that is    *)
(* missing or a value of the wrong type is a ValidationError.              *)
(***************************************************************************)
GenericFields ==
    { K("contract_type"), K("parties"), K("effective_date"),
      K("termination_date"), K("governing_law"), K("renewal_terms"),
      K("clauses"), K("custom_fields") }

EmploymentFields ==
    { K("employee_name"), K("employer_name"), K("compensation"),
      K("probation_period") }

NDAFields == { K("confidentiality_period"), K("non_compete") }

MSAFields ==
    { K("payment_terms"), K("indemnification"), K("limitation_of_liability") }

FieldsOf(cls) ==
    GenericFields \cup
        CASE cls = "EmploymentSchema" -> EmploymentFields
          [] cls = "NDASchema" -> NDAFields
          [] cls = "MSASchema" -> MSAFields
          [] OTHER -> {}

FieldType(f) ==
    CASE f = K("contract_type") -> "str"
      [] f = K("parties") -> "parties"
      [] f = K("clauses") -> "clauses"
      [] f = K("custom_fields") -> "dict"
      [] f \in {K("non_compete"), K("indemnification")} -> "optbool"
      [] OTHER -> "optstr"

HasDefault(cls, f) == f # K("contract_type") \/ cls # "GenericContractSchema"

DefaultOf(cls, f) ==
    CASE f = K("contract_type") ->
            ( CASE cls = "EmploymentSchema" -> JStr(<<"employment">>)
                [] cls = "NDASchema" -> JStr(<<"nda">>)
                [] OTHER -> JStr(<<"service", " ", "agreement">>) )
      [] f \in {K("parties"), K("clauses")} -> JList(<<>>)
      [] f = K("custom_fields") -> JDict(EmptyMap)
      [] OTHER -> JNull

Has(d, k, ty) == k \in DOMAIN d /\ d[k].t = ty

IsBoolLike(x) == x.t = "bool" \/ (x.t = "int" /\ x.v \in {0, 1})

ToBool(x) == IF x.t = "bool" THEN x ELSE JBool(x.v = 1)

(* Party: role and name, both required strings. *)
PartyOk(x) == IsDict(x) /\ Has(x.v, K("role"), "str") /\ Has(x.v, K("name"), "str")

PartyOf(x) == JDict(K("role") :> x.v[K("role")] @@ K("name") :> x.v[K("name")])

(* Clause: name, present, and an optional text. *)
ClauseOk(x) ==
    /\ IsDict(x)
    /\ Has(x.v, K("name"), "str")
    /\ K("present") \in DOMAIN x.v /\ IsBoolLike(x.v[K("present")])
    /\ (K("text") \in DOMAIN x.v => x.v[K("text")].t \in {"str", "null"})

ClauseOf(x) ==
    JDict(K("name") :> x.v[K("name")] @@ K("present") :> ToBool(x.v[K("present")])
            @@ K("text") :> (IF K("text") \in DOMAIN x.v THEN x.v[K("text")] ELSE JNull))

FieldOk(ty, x) ==
    CASE ty = "str" -> x.t = "str"
      [] ty = "optstr" -> x.t \in {"str", "null"}
      [] ty = "optbool" -> x.t = "null" \/ IsBoolLike(x)
      [] ty = "dict" -> IsDict(x)
      [] ty = "parties" -> IsList(x) /\ \A i \in 1..Len(x.v) : PartyOk(x.v[i])
      [] ty = "clauses" -> IsList(x) /\ \A i \in 1..Len(x.v) : ClauseOk(x.v[i])

FieldValue(ty, x) ==
    CASE ty = "optbool" -> (IF x.t = "null" THEN x ELSE ToBool(x))
      [] ty = "parties" -> JList([i \in 1..Len(x.v) |-> PartyOf(x.v[i])])
      [] ty = "clauses" -> JList([i \in 1..Len(x.v) |-> ClauseOf(x.v[i])])
      [] OTHER -> x

(* schema_cls called with the entries of d as keyword arguments *)
Construct(cls, d) ==
    IF \E f \in FieldsOf(cls) :
          \/ f \in DOMAIN d /\ ~FieldOk(FieldType(f), d[f])
          \/ f \notin DOMAIN d /\ ~HasDefault(cls, f)
    THEN Raised("ValidationError")
    ELSE Returned([t |-> cls,
                   v |-> [f \in FieldsOf(cls) |->
                            IF f \in DOMAIN d
                            THEN FieldValue(FieldType(f), d[f])
                            ELSE DefaultOf(cls, f)]])

(* model_dump(mode="json", exclude_none=True): the fields that are not    *)
(* None, nested records included.                                          *)
DropNone(d) == [k \in {k \in DOMAIN d : d[k].t # "null"} |-> d[k]]

DumpField(x) ==
    IF IsList(x)
    THEN JList([i \in 1..Len(x.v) |->
                  IF IsDict(x.v[i]) THEN JDict(DropNone(x.v[i].v)) ELSE x.v[i]])
    ELSE x

model_dump(rec) ==
    [k \in {k \in DOMAIN rec.v : rec.v[k].t # "null"} |-> DumpField(rec.v[k])]

(***************************************************************************)
(* extractors/metadata_extractor.py                                        *)
(***************************************************************************)

(* SCHEMA_MAP.get(name, GenericContractSchema) *)
SchemaFor(name) ==
    CASE name = <<"employment">> -> "EmploymentSchema"
      [] name = <<"nda">> -> "NDASchema"
      [] name = <<"service", " ", "agreement">> -> "MSASchema"
      [] OTHER -> "GenericContractSchema"

(* blob.find("{") and blob.rfind("}"), counted from 1; 0 when absent *)
RECURSIVE find(_, _, _)
find(s, c, i) == IF i > Len(s) THEN 0 ELSE IF s[i] = c THEN i ELSE find(s, c, i + 1)

RECURSIVE rfind(_, _, _)
rfind(s, c, i) == IF i < 1 THEN 0 ELSE IF s[i] = c THEN i ELSE rfind(s, c, i - 1)

(* _extract_json(raw) or raw *)
extract_json_or_raw(raw) ==
    LET start == find(raw, "{", 1)
        end == rfind(raw, "}", Len(raw))
    IN  IF start = 0 \/ end = 0 \/ end <= start THEN raw
        ELSE SubSeq(raw, start, end)

Fallback ==
    Construct("GenericContractSchema",
              K("contract_type") :> JStr(<<"unknown">>) @@ K("parties") :> JList(<<>>))

(* The class SCHEMA_MAP has for d.get("contract_type", "").lower(), or the *)
(* generic one, constructed from the entries of d:                         *)
(* AttributeError when d has no .get or the type is not a string.          *)
Resolve(d) ==
    IF ~IsDict(d) THEN Raised("AttributeError")
    ELSE LET ct == IF K("contract_type") \in DOMAIN d.v
                   THEN d.v[K("contract_type")] ELSE JStr(<<>>)
         IN  IF ct.t # "str" THEN Raised("AttributeError")
             ELSE Construct(SchemaFor(lower(ct.v)), d.v)

(* _extract_single from the oracle's answer on, lines 65-80 *)
extract_single(raw) ==
    LET parsed == fix_and_load(extract_json_or_raw(raw))
    IN  IF parsed = JNull THEN Fallback ELSE Resolve(parsed)

(* extract_metadata after the last chunk, lines 112-118 *)
MergeAndResolve(records) ==
    LET merged == merge_json_objects([i \in 1..Len(records) |-> model_dump(records[i])])
    IN  IF ~merged.ok THEN merged ELSE Resolve(merged.val)

(***************************************************************************)
(* Inputs of merge_json_objects                                            *)
(***************************************************************************)
MaxObjs == 2

S(x) == JStr(<<x>>)

(* Values of an ordinary key: every scalar kind, lists and mappings. *)
AVals ==
    { JNull, JBool(FALSE), JBool(TRUE), JInt(0), JInt(1),
      JStr(<<>>), S("first"), S("second"),
      JList(<<>>), JList(<<S("x"), S("y")>>), JList(<<S("y"), S("z")>>),
      JDict(EmptyMap), JDict(K("k1") :> JInt(1)),
      JDict(K("k1") :> JInt(0) @@ K("k2") :> JInt(2)) }

Party(role, name) == JDict(K("role") :> S(role) @@ K("name") :> JStr(name))

Parties ==
    { Party("buyer", <<"Acme">>), Party("seller", <<"ACME", " ">>),
      Party("buyer", <<" ", "acme">>), Party("seller", <<"Beta">>),
      Party("buyer", <<" ">>) }

PartyLists ==
    {<<>>} \cup {<<p>> : p \in Parties} \cup {<<p, q>> : p, q \in Parties}

Clause(name, present) ==
    JDict(K("name") :> JStr(name) @@ K("present") :> JBool(present))

Clauses ==
    { Clause(<<"NDA">>, TRUE), Clause(<<"nda", " ">>, TRUE),
      Clause(<<"NDA">>, FALSE), Clause(<<>>, TRUE) }

ClauseLists ==
    {<<>>} \cup {<<p>> : p \in Clauses} \cup {<<p, q>> : p, q \in Clauses}

(* Entries no schema produces: not a mapping, a null name, no name. *)
OddEntries ==
    { <<JInt(1)>>, <<JDict(K("name") :> JNull)>>,
      <<JDict(K("role") :> S("buyer")), Party("buyer", <<"Acme">>)>> }

Rec1(k, vals) == {EmptyMap} \cup {(k :> x) : x \in vals}

ARecords == Rec1(K("a"), AVals)

PRecords ==
    Rec1(K("parties"), {JList(l) : l \in PartyLists} \cup {S("x"), JNull})

(* One record with every kind of key, as a chunk's dump has them. *)
RichRecords ==
    { a @@ p @@ c :
        a \in Rec1(K("a"), {JNull, JBool(FALSE), JInt(0), JInt(1), S("first"),
                            JList(<<>>), JList(<<S("x"), S("x")>>),
                            JDict(K("k1") :> JInt(0))}),
        p \in Rec1(K("parties"),
                   {JList(l) : l \in PartyLists \cup OddEntries} \cup {S("x")}),
        c \in Rec1(K("clauses"),
                   {JList(l) : l \in ClauseLists \cup OddEntries}) }

SeqsUpTo(set, n) == UNION {[1..m -> set] : m \in 0..n}

MergeInputs ==
    SeqsUpTo(ARecords, MaxObjs) \cup SeqsUpTo(PRecords, MaxObjs)
        \cup {<<r>> : r \in RichRecords}

(***************************************************************************)
(* merge_json_objects applied to every input                               *)
(***************************************************************************)
SplitIdle == text = <<>> /\ max_tokens = 0 /\ chunks = <<>>

FixIdle == blob = <<>> /\ data = JNull

MergeIdle == objs = <<>> /\ result = NotCalled

ExtractIdle ==
    /\ doc = <<>> /\ todo = <<>> /\ raws = <<>> /\ extractions = <<>>
    /\ outcome = NotCalled /\ save = FALSE /\ sink = JNull

BatchIdle ==
    /\ task = <<>> /\ left = <<>> /\ cause = <<>>
    /\ sem_value = 0 /\ waiters = <<>>

InitMerge ==
    /\ pc = "call"
    /\ objs \in MergeInputs
    /\ result = NotCalled
    /\ SplitIdle /\ FixIdle /\ ExtractIdle /\ BatchIdle

CallMerge ==
    /\ pc = "call"
    /\ result' = merge_json_objects(objs)
    /\ pc' = "done"
    /\ UNCHANGED <<objs, splitVars, fixVars, extractVars, batchVars>>

NextMerge == CallMerge

SpecMerge == InitMerge /\ [][NextMerge]_vars

(***************************************************************************)
(* split_by_tokens applied to every text and budget                        *)
(***************************************************************************)
MaxTextLen == 9

MaxTokens == 2

Texts == SeqsUpTo({"x", "y"}, MaxTextLen)

InitSplit ==
    /\ pc = "call"
    /\ text \in Texts
    /\ max_tokens \in 1..MaxTokens
    /\ chunks = <<>>
    /\ MergeIdle /\ FixIdle /\ ExtractIdle /\ BatchIdle

CallSplit ==
    /\ pc = "call"
    /\ chunks' = split_by_tokens(text, max_tokens)
    /\ pc' = "done"
    /\ UNCHANGED <<text, max_tokens, mergeVars, fixVars, extractVars, batchVars>>

NextSplit == CallSplit

SpecSplit == InitSplit /\ [][NextSplit]_vars

(***************************************************************************)
(* fix_and_load applied to every blob                                      *)
(***************************************************************************)
MaxPieces == 3

Quoted(w) == <<QUOTE, w, QUOTE>>

Pieces ==
    { <<"{">>, <<"}">>, <<"[">>, <<"]">>, <<",">>, <<":">>, <<" ">>, <<"1">>,
      Quoted("a"), <<FENCE>> }

RECURSIVE Concat(_)
Concat(seqs) == IF seqs = <<>> THEN <<>> ELSE Head(seqs) \o Concat(Tail(seqs))

PieceTexts == {Concat(ps) : ps \in SeqsUpTo(Pieces, MaxPieces)}

(* Objects with one member, with and without commas before the brackets. *)
MemberTexts ==
    { <<"1">>, Quoted("x"), <<"[", "1", "]">>, <<"[", "1", ",", "]">>,
      <<"[", "1", " ", ",", " ", "]">>, <<"[", "]">>, <<"{", "}">>,
      <<"{">> \o Quoted("b") \o <<":", "2", "}">>,
      <<"{">> \o Quoted("b") \o <<":", "2", ",", "}">> }

CommaTexts == { <<>>, <<",">>, <<",", " ">>, <<",", "\n">> }

ObjectTexts ==
    { <<"{">> \o Quoted("a") \o <<":">> \o m \o c \o <<"}">> :
        m \in MemberTexts, c \in CommaTexts }

Wrappings ==
    { <<<<>>, <<>>>>, <<<<FENCE, "json", "\n">>, <<"\n", FENCE>>>>,
      <<<<" ">>, <<"\n">>>> }

Blobs == PieceTexts \cup {w[1] \o o \o w[2] : o \in ObjectTexts, w \in Wrappings}

InitFix ==
    /\ pc = "call"
    /\ blob \in Blobs
    /\ data = JNull
    /\ MergeIdle /\ SplitIdle /\ ExtractIdle /\ BatchIdle

CallFix ==
    /\ pc = "call"
    /\ data' = fix_and_load(blob)
    /\ pc' = "done"
    /\ UNCHANGED <<blob, mergeVars, splitVars, extractVars, batchVars>>

NextFix == CallFix

SpecFix == InitFix /\ [][NextFix]_vars

(***************************************************************************)
(* extract_metadata on one document, the oracle answering each call with   *)
(* any of the texts below or failing                                       *)
(***************************************************************************)
DocTexts == {[i \in 1..n |-> "x"] : n \in 0..MaxTextLen}

Member(k, valueText) == Quoted(k) \o <<":">> \o valueText

Obj1(m) == <<"{">> \o m \o <<"}">>

Obj2(m, n) == <<"{">> \o m \o <<",", " ">> \o n \o <<"}">>

NdaText == Obj1(Member("contract_type", Quoted("NDA")))

LeaseText ==
    Obj2(Member("contract_type", Quoted("Lease")), Member("rent", Quoted("100")))

OracleTexts ==
    { <<"Sorry", ",", " ", "no", " ", "contract">>,
      <<"1">>,
      <<"[", "1", "]">>,
      Quoted("nda"),
      <<"null">>,
      Obj1(Member("parties", <<"[", "]">>)),
      Obj1(Member("contract_type", <<QUOTE, QUOTE>>)),
      Obj1(Member("contract_type", <<"1">>)),
      Obj1(Member("contract_type", <<"null">>)),
      NdaText,
      LeaseText,
      <<"Sure", ":", "\n">> \o NdaText \o <<"\n", "Done">>,
      <<FENCE, "json", "\n">> \o LeaseText \o <<"\n", FENCE>>,
      Obj2(Member("contract_type", Quoted("nda")),
           Member("non_compete", <<"false">>) \o <<",">>
               \o Member("rent", Quoted("100"))),
      Obj2(Member("contract_type", Quoted("Lease")),
           Member("parties",
                  <<"[">> \o Obj2(Member("role", Quoted("tenant")),
                                  Member("name", Quoted("Acme"))) \o <<"]">>)),
      Obj2(Member("contract_type", Quoted("Lease")),
           Member("custom_fields", Obj1(Member("rent", Quoted("100"))))) }

SinglePath == token_len(doc) <= max_tokens

InitExtract ==
    /\ pc = "start"
    /\ doc \in DocTexts
    /\ max_tokens \in 1..MaxTokens
    /\ save \in BOOLEAN
    /\ todo = <<>> /\ raws = <<>> /\ extractions = <<>>
    /\ outcome = NotCalled /\ sink = JNull
    /\ text = <<>> /\ chunks = <<>>
    /\ MergeIdle /\ FixIdle /\ BatchIdle

(* Lines 99-105, up to the first call of the oracle. *)
Route ==
    /\ pc = "start"
    /\ todo' = IF SinglePath THEN <<doc>> ELSE split_by_tokens(doc, max_tokens)
    /\ pc' = "oracle"
    /\ UNCHANGED <<doc, raws, extractions, outcome, save, sink, max_tokens, text,
                   chunks, mergeVars, fixVars, batchVars>>

(* client.chat_completion raises: nothing catches it. *)
OracleFails ==
    /\ pc = "oracle"
    /\ outcome' = Raised("OracleFailure")
    /\ pc' = "raised"
    /\ UNCHANGED <<doc, todo, raws, extractions, save, sink, max_tokens, text,
                   chunks, mergeVars, fixVars, batchVars>>

(* The record is final: lines 120-137. *)
Finish(r) ==
    /\ outcome' = r
    /\ pc' = IF r.ok THEN "returned" ELSE "raised"
    /\ sink' = IF r.ok /\ save THEN JDict(model_dump(r.val)) ELSE sink

(* client.chat_completion returns raw; the pipeline runs up to its next    *)
(* call of the oracle or to its end.                                       *)
OracleReturns ==
    /\ pc = "oracle"
    /\ \E raw \in OracleTexts :
         LET r == extract_single(raw)
         IN  /\ raws' = Append(raws, raw)
             /\ todo' = Tail(todo)
             /\ IF ~r.ok \/ SinglePath
                THEN Finish(r) /\ UNCHANGED extractions
                ELSE /\ extractions' = Append(extractions, r.val)
                     /\ IF Tail(todo) # <<>>
                        THEN UNCHANGED <<pc, outcome, sink>>
                        ELSE Finish(MergeAndResolve(extractions'))
    /\ UNCHANGED <<doc, save, max_tokens, text, chunks, mergeVars, fixVars,
                   batchVars>>

NextExtract == Route \/ OracleFails \/ OracleReturns

SpecExtract == InitExtract /\ [][NextExtract]_vars

(***************************************************************************)
(* main and gather_with_concurrency: one task per document, each behind    *)
(* the semaphore; asyncio.run ends the loop when main is over.             *)
(***************************************************************************)
NumDocs == 3

Concurrency == 2

MaxCalls == 2

Docs == 1..NumDocs

Unfinished == {"created", "waiting", "running"}

Running == {d \in Docs : task[d] = "running"}

(* gather creates the tasks together and the loop runs the first step of   *)
(* each, in order, before any oracle call can complete.                    *)
AllStarted == \A d \in Docs : task[d] # "created"

(* A gate that never reports itself locked. *)
lockedNever(value, queue) == FALSE

(* Semaphore.locked() *)
locked(value, queue) == value = 0 \/ queue # <<>>

InitBatch ==
    /\ pc = "gather"
    /\ task = [d \in Docs |-> "created"]
    /\ left \in [Docs -> 1..MaxCalls]
    /\ cause = [d \in Docs |-> "none"]
    /\ sem_value = Concurrency
    /\ waiters = <<>>
    /\ MergeIdle /\ SplitIdle /\ FixIdle /\ ExtractIdle

(* wrap(coro) starts, in the order the tasks were created: async with sem  *)
(* takes a permit, or queues behind the gate.                              *)
TaskStarts(d) ==
    /\ pc # "exited"
    /\ task[d] = "created"
    /\ \A e \in 1..(d - 1) : task[e] # "created"
    /\ IF locked(sem_value, waiters)
       THEN /\ waiters' = Append(waiters, d)
            /\ task' = [task EXCEPT ![d] = "waiting"]
            /\ UNCHANGED sem_value
       ELSE /\ sem_value' = sem_value - 1
            /\ task' = [task EXCEPT ![d] = "running"]
            /\ UNCHANGED waiters
    /\ UNCHANGED <<pc, left, cause, mergeVars, splitVars, fixVars, extractVars>>

(* sem.release() as the task d leaves async with in state st: the permit   *)
(* goes to the first waiter, or back to the counter.                       *)
Release(d, st) ==
    IF waiters # <<>>
    THEN /\ task' = [task EXCEPT ![d] = st, ![Head(waiters)] = "running"]
         /\ waiters' = Tail(waiters)
         /\ UNCHANGED sem_value
    ELSE /\ task' = [task EXCEPT ![d] = st]
         /\ sem_value' = sem_value + 1
         /\ UNCHANGED waiters

(* The oracle answers a chunk that is not the last one. *)
ChunkDone(d) ==
    /\ pc # "exited"
    /\ AllStarted
    /\ task[d] = "running"
    /\ left[d] > 1
    /\ left' = [left EXCEPT ![d] = left[d] - 1]
    /\ UNCHANGED <<pc, task, cause, sem_value, waiters, mergeVars, splitVars,
                   fixVars, extractVars>>

(* The oracle answers the last chunk and _proc returns. *)
PipelineReturns(d) ==
    /\ pc # "exited"
    /\ AllStarted
    /\ task[d] = "running"
    /\ left[d] = 1
    /\ left' = [left EXCEPT ![d] = 0]
    /\ Release(d, "done")
    /\ UNCHANGED <<pc, cause, mergeVars, splitVars, fixVars, extractVars>>

(* The oracle call fails, or the answer makes _extract_single raise. *)
PipelineRaises(d) ==
    /\ pc # "exited"
    /\ AllStarted
    /\ task[d] = "running"
    /\ \E why \in {"OracleFailure", "PayloadError"} :
          cause' = [cause EXCEPT ![d] = why]
    /\ Release(d, "failed")
    /\ UNCHANGED <<pc, left, mergeVars, splitVars, fixVars, extractVars>>

(* asyncio.gather is over: a task raised, or every task returned.  main    *)
(* leaves the async with block and awaits client.close().                  *)
GatherEnds ==
    /\ pc = "gather"
    /\ \/ \E d \in Docs : task[d] = "failed"
       \/ \A d \in Docs : task[d] = "done"
    /\ pc' = "closing"
    /\ UNCHANGED <<batchVars, mergeVars, splitVars, fixVars, extractVars>>

(* main is over and asyncio.run cancels every task that is not finished.   *)
MainEnds ==
    /\ pc = "closing"
    /\ pc' = "exited"
    /\ task' = [d \in Docs |->
                  IF task[d] \in Unfinished THEN "cancelled" ELSE task[d]]
    /\ sem_value' = sem_value + Cardinality(Running)
    /\ waiters' = <<>>
    /\ UNCHANGED <<left, cause, mergeVars, splitVars, fixVars, extractVars>>

NextBatch ==
    \/ \E d \in Docs : TaskStarts(d)
    \/ \E d \in Docs : ChunkDone(d)
    \/ \E d \in Docs : PipelineReturns(d)
    \/ \E d \in Docs : PipelineRaises(d)
    \/ GatherEnds
    \/ MainEnds

SpecBatch == InitBatch /\ [][NextBatch]_vars

(***************************************************************************)
(* Properties of merge_json_objects                                        *)
(***************************************************************************)
Merged == result.val.v

(* The values a key has in the records, in input order. *)
RECURSIVE ValuesOf(_, _)
ValuesOf(k, records) ==
    IF records = <<>> THEN <<>>
    ELSE (IF k \in DOMAIN Head(records) THEN <<Head(records)[k]>> ELSE <<>>)
             \o ValuesOf(k, Tail(records))

AllKeys(records) == UNION {DOMAIN records[i] : i \in 1..Len(records)}

(* Emptiness as the documentation lists it. *)
ListedEmpty(x) ==
    \/ x.t = "null"
    \/ x.t = "list" /\ x.v = <<>>
    \/ x.t = "dict" /\ DOMAIN x.v = {}
    \/ x.t = "str" /\ x.v = <<>>
    \/ x.t = "int" /\ x.v = 0

(* What line 80 skips: the listed empties and False, which equals 0. *)
SkippedValue(x) == ListedEmpty(x) \/ (x.t = "bool" /\ x.v = FALSE)

NoMergeRule(x, y) == ~(IsList(x) /\ IsList(y)) /\ ~(IsDict(x) /\ IsDict(y))

Kept(vals) == SelectSeq(vals, LAMBDA x : ~SkippedValue(x))

(* C4: in the left-to-right fold, when the accumulator holds a non-empty   *)
(* value for a key and the incoming value is non-empty too, and the two    *)
(* are scalars or of mismatched types, the fold step leaves the            *)
(* accumulator's value in place; so a key whose non-empty values are all   *)
(* in conflict ends with the first of them in input order (a list among    *)
(* them is still subject to the final parties/clauses pass).               *)
C4_FirstNonEmptyWins ==
    (pc = "done" /\ result.ok) =>
        /\ \A i \in 1..Len(objs) :
             LET acc == Fold(EmptyMap, SubSeq(objs, 1, i - 1))
                 nxt == Fold(EmptyMap, SubSeq(objs, 1, i))
             IN  \A k \in DOMAIN objs[i] \cap DOMAIN acc :
                    ( /\ ~ListedEmpty(acc[k])
                      /\ ~ListedEmpty(objs[i][k])
                      /\ NoMergeRule(acc[k], objs[i][k]) ) => nxt[k] = acc[k]
        /\ \A k \in AllKeys(objs) :
             LET kept == Kept(ValuesOf(k, objs))
             IN  ( /\ kept # <<>>
                   /\ ~IsList(kept[1])
                   /\ \A j \in 2..Len(kept) : NoMergeRule(kept[1], kept[j]) )
                 => (k \in DOMAIN Merged /\ Merged[k] = kept[1])

C4_Witness ==
    /\ pc = "done"
    /\ objs = <<K("a") :> S("first"), K("a") :> S("second")>>
    /\ result = Returned(JDict(K("a") :> S("first")))

(* The identity of a party: its name, trimmed and lower-cased. *)
PartyName(x) ==
    IF K("name") \in DOMAIN x.v THEN lower(strip(x.v[K("name")].v)) ELSE <<>>

RECURSIVE Flatten(_)
Flatten(lists) == IF lists = <<>> THEN <<>> ELSE Head(lists).v \o Flatten(Tail(lists))

(* Every party entry of the input, record by record, then in list order. *)
InputParties ==
    Flatten(SelectSeq(ValuesOf(K("parties"), objs), LAMBDA x : IsList(x)))

(* C5: the parties list of the merged record has at most one entry per     *)
(* lower-cased, trimmed name, and the entry it holds for a name is the     *)
(* first entry with that name in input order (record, then list).          *)
C5_PartiesFirstPerName ==
    ( /\ pc = "done"
      /\ result.ok
      /\ K("parties") \in DOMAIN Merged
      /\ IsList(Merged[K("parties")]) ) =>
        LET out == Merged[K("parties")].v
            inp == InputParties
        IN  /\ \A i, j \in 1..Len(out) :
                  PartyName(out[i]) = PartyName(out[j]) => i = j
            /\ \A i \in 1..Len(out) :
                  \E j \in 1..Len(inp) :
                      /\ inp[j] = out[i]
                      /\ \A h \in 1..(j - 1) : PartyName(inp[h]) # PartyName(out[i])

C5_Witness ==
    /\ pc = "done"
    /\ objs = << K("parties") :> JList(<<Party("buyer", <<"Acme">>)>>),
                 K("parties") :> JList(<<Party("seller", <<"ACME", " ">>)>>) >>
    /\ result.ok
    /\ Merged[K("parties")] = JList(<<Party("buyer", <<"Acme">>)>>)

(* C8: a value is skipped exactly when it is null, an empty list, an empty *)
(* mapping, the empty string or the number zero: a key ends up in the      *)
(* merged record exactly when some record holds a value for it that is     *)
(* none of these.                                                          *)
C8_EmptyExactlyAsListed ==
    (pc = "done" /\ result.ok) =>
        \A k \in AllKeys(objs) :
            k \in DOMAIN Merged <=>
                \E i \in 1..Len(objs) :
                    k \in DOMAIN objs[i] /\ ~ListedEmpty(objs[i][k])

(* The entries of a list at the indices where keep holds, in order. *)
RECURSIVE KeepAt(_, _, _)
KeepAt(lst, keep, i) ==
    IF i > Len(lst) THEN <<>>
    ELSE (IF i \in keep THEN <<lst[i]>> ELSE <<>>) \o KeepAt(lst, keep, i + 1)

FirstPerName(lst) ==
    KeepAt(lst, {i \in 1..Len(lst) :
                    /\ PartyName(lst[i]) # <<>>
                    /\ \A j \in 1..(i - 1) : PartyName(lst[j]) # PartyName(lst[i])}, 1)

Present(x) == K("present") \in DOMAIN x.v /\ Truthy(x.v[K("present")])

FirstPerNameAndPresence(lst) ==
    KeepAt(lst, {i \in 1..Len(lst) :
                    \A j \in 1..(i - 1) :
                        ~(PartyName(lst[j]) = PartyName(lst[i])
                            /\ Present(lst[j]) = Present(lst[i]))}, 1)

PostDedup(k, x) ==
    IF k = K("parties") /\ IsList(x) THEN JList(FirstPerName(x.v))
    ELSE IF k = K("clauses") /\ IsList(x) THEN JList(FirstPerNameAndPresence(x.v))
    ELSE x

C6_ChunksRebuildText ==
    pc = "done" =>
        /\ Concat(chunks) = text
        /\ (text = <<>> => chunks = <<>>)

C6_Witness ==
    /\ pc = "done"
    /\ max_tokens = 1
    /\ Len(text) = 2 * CharsPerToken + 1
    /\ Len(chunks) = 3
    /\ Len(chunks[3]) = 1

(***************************************************************************)
(* Properties of fix_and_load                                              *)
(***************************************************************************)

(* The trailing commas removed and the bracket that follows kept. *)
RECURSIVE CommasRemoved(_, _)
CommasRemoved(s, i) ==
    IF i > Len(s) THEN <<>>
    ELSE LET b == skipws(s, i + 1)
         IN  IF s[i] = "," /\ At(s, b) \in {"}", "]"}
             THEN <<s[b]>> \o CommasRemoved(s, b + 1)
             ELSE <<s[i]>> \o CommasRemoved(s, i + 1)

TrailingCommaExample == <<"{">> \o Quoted("a") \o <<":", "1", ",", "}">>

(* C7: when the direct parse fails, the text with its fences stripped, its *)
(* trailing commas removed (brackets kept) and its missing commas added is *)
(* parsed, and what that gives is returned; the object with one member a:1 *)
(* and a trailing comma comes back as that object.                         *)
C7_TrailingCommaRecovered ==
    (pc = "done" /\ ~json_loads(blob).ok) =>
        LET cleaned ==
                add_missing_commas(CommasRemoved(strip_markdown_fence(blob), 1))
        IN  /\ ( /\ json_loads(cleaned).ok
                  /\ IsDict(json_loads(cleaned).val)
                  /\ DOMAIN json_loads(cleaned).val.v # {} )
                  => data = json_loads(cleaned).val
            /\ blob = TrailingCommaExample => data = JDict(K("a") :> JInt(1))

(***************************************************************************)
(* Properties of the per-document pipeline                                 *)
(***************************************************************************)

(* C1: whatever text the oracle returns, the pipeline returns a record     *)
(* that has a contract_type; it raises only when the oracle call fails.    *)
C1_OnlyOracleFailureAborts ==
    /\ pc = "raised" => outcome.exc = "OracleFailure"
    /\ pc = "returned" =>
          (outcome.ok /\ K("contract_type") \in DOMAIN outcome.val.v)

(* The mapping the single-chunk path constructs its record from. *)
SingleData == fix_and_load(extract_json_or_raw(raws[1]))

(* C9: a mapping with keys that are no fields of the resolved shape still  *)
(* constructs, and when the shape is the generic one those keys and their  *)
(* values are in the record's custom_fields.                               *)
C9_UnknownKeysToCustomFields ==
    ( /\ pc \in {"returned", "raised"}
      /\ SinglePath
      /\ Len(raws) = 1
      /\ IsDict(SingleData)
      /\ Construct("GenericContractSchema",
                   [k \in DOMAIN SingleData.v \cap GenericFields |-> SingleData.v[k]]).ok
      /\ Has(SingleData.v, K("contract_type"), "str")
      /\ SchemaFor(lower(SingleData.v[K("contract_type")].v)) = "GenericContractSchema" )
    =>  /\ pc = "returned"
        /\ \A k \in DOMAIN SingleData.v \ GenericFields :
              /\ k \in DOMAIN outcome.val.v[K("custom_fields")].v
              /\ outcome.val.v[K("custom_fields")].v[k] = SingleData.v[k]

(***************************************************************************)
(* Properties of the batch                                                 *)
(***************************************************************************)

(* C2: when a pipeline's oracle call fails, no other pipeline is           *)
(* cancelled: each of them, in flight or waiting at the gate, runs to its  *)
(* end, so that when the batch is over every pipeline has returned, except *)
(* those whose own oracle call failed.                                     *)
C2_FailureIsolated ==
    (\A d \in Docs : cause[d] # "PayloadError") =>
        /\ \A d \in Docs : task[d] # "cancelled"
        /\ pc = "exited" => \A d \in Docs : task[d] \in {"done", "failed"}

(* C3: the pipelines admitted by the gate and not yet finished are never   *)
(* more than the concurrency limit.                                        *)
C3_AtMostNInFlight ==
    /\ Cardinality(Running) <= Concurrency
    /\ sem_value >= 0

C3_Witness ==
    /\ Cardinality(Running) = Concurrency
    /\ \E d \in Docs : task[d] \in {"done", "failed"}
    /\ task[NumDocs] = "running"

====
